---- MODULE Spec2Model ----
(***************************************************************************)
(* A model of the shared grid utility of advent-of-code-2023:              *)
(* util::Map2d (src/util/map2d.rs), Vec2 and Dir (src/util/mod.rs), and    *)
(* the rotated view that day 14's slide puts over a Map2d.                 *)
(*                                                                         *)
(* One Map2d object is followed from its construction (new_default or      *)
(* parse_grid) through writes made by way of get_mut to one call of an     *)
(* accessor.  The accessors take &self and leave the object                *)
(* as it is, so a run ends with the accessor call it observes              *)
(* (pc = "observed"), or with a panic (pc = "panicked").                   *)
(*                                                                         *)
(* The solvers of the days are modelled after the grid, each under a       *)
(* specification of its own: day 14's slide and spin cycles (SpecSlide,    *)
(* SpecSpin), which work on the Map2d of the variables above, and the      *)
(* algorithms of days 5, 1, 12, 15, 19 and 10 and of util, each on a       *)
(* variable of its own.                                                    *)
(***************************************************************************)
EXTENDS Integers, Sequences, FiniteSets, TLC

VARIABLES
    pc,      \* "start": no Map2d yet; "built": the Map2d exists; "observed": an
             \* accessor has returned; "panicked"
    size,    \* Map2d::size, a Vec2
    data,    \* Map2d::data, a Vec<Tile>; data[i+1] is the element at index i
    writes,  \* the number of writes made through get_mut
    ret,     \* the last call: [op, arg, res]; res is <<>> when the call panicked
    d14,     \* day 14, solve_part_2: its locals
    d5,      \* day 5: a Mapping, a range query and the RangeQueryIter over it
    d1,      \* day 1: a line and the Part2Digits over it
    util,    \* util: a call of binomial_coefficient and its locals
    d12,     \* day 12: a Row and the count of the ways to fit it
    d15,     \* day 15, solve_part_2: the steps and the boxes
    d19,     \* day 19: the workflows and the ranges sent through them
    d10      \* day 10: a pair of directions and the cell made of it

mapVars == <<pc, size, data, writes, ret>>
dayVars == <<d14, d5, d1, util, d12, d15, d19, d10>>
vars == <<mapVars, dayVars>>

\* The value of a variable whose solver the specification at hand does not
\* run.
Idle == <<>>

\* Every solver's variable but that of the given one is idle.
OtherDaysIdle(day) ==
    /\ IF day = "d14" THEN TRUE ELSE d14 = Idle
    /\ IF day = "d5" THEN TRUE ELSE d5 = Idle
    /\ IF day = "d1" THEN TRUE ELSE d1 = Idle
    /\ IF day = "util" THEN TRUE ELSE util = Idle
    /\ IF day = "d12" THEN TRUE ELSE d12 = Idle
    /\ IF day = "d15" THEN TRUE ELSE d15 = Idle
    /\ IF day = "d19" THEN TRUE ELSE d19 = Idle
    /\ IF day = "d10" THEN TRUE ELSE d10 = Idle

DaysIdle == OtherDaysIdle("none")

\* No Map2d is in use.
MapIdle ==
    /\ pc = "idle"
    /\ size = [x |-> 0, y |-> 0]
    /\ data = <<>>
    /\ writes = 0
    /\ ret = [op |-> "none", arg |-> <<>>, res |-> <<>>]

---------------------------------------------------------------------------
(* Bounds of the model. *)

\* The longest text handed to parse_grid.
MaxTextLen == 5
\* new_default is called with sizes in (-NegDim..MaxDim) x (-NegDim..MaxDim).
MaxDim == 3
NegDim == 2
\* The number of writes through get_mut that are followed.
MaxWrites == 1

---------------------------------------------------------------------------
(* Values. *)

NL == "\n"
CR == "\r"
\* The characters of an input text (all of them one byte long).
Chars == {"a", "b", NL, CR}
\* The cell type the grid is instantiated with, and the cells that
\* new_default and the writes are given.
Tile == {"A", "B", "R"}
GivenTiles == {"A", "B"}

\* The function handed to parse_grid: a total, non-panicking char -> Tile.
CharToTile(c) ==
    CASE c = "a" -> "A"
      [] c = "b" -> "B"
      [] OTHER   -> "R"

Texts == UNION {[1..n -> Chars] : n \in 0..MaxTextLen}

Vec2(x, y) == [x |-> x, y |-> y]

\* Option<T>: None is the empty sequence, Some(v) the sequence of v alone.
None == <<>>
Some(v) == <<v>>

Abs(a) == IF a < 0 THEN -a ELSE a

\* i64 division and remainder: Rust truncates toward zero; b # 0.
TruncDiv(a, b) ==
    LET q == Abs(a) \div Abs(b)
    IN  IF (a < 0) = (b < 0) THEN q ELSE -q

TruncRem(a, b) == a - b * TruncDiv(a, b)

Max(a, b) == IF a >= b THEN a ELSE b

\* The coordinates, rows and indices the accessors of a grid are called with:
\* every one the grid holds and those one step outside it on each side.
Coords(sz) == {Vec2(x, y) : x \in -1..Max(sz.x, 0), y \in -1..Max(sz.y, 0)}
\* The coordinates get_mut is called with: every one the grid holds, and
\* one past each of its four edges and past two opposite corners.
WriteCoords(sz) ==
    {p \in Coords(sz) :
        \/ 0 <= p.x /\ p.x < sz.x /\ 0 <= p.y /\ p.y < sz.y
        \/ p \in {Vec2(-1, 0), Vec2(0, -1), Vec2(-1, -1),
                  Vec2(Max(sz.x, 0), 0), Vec2(0, Max(sz.y, 0)),
                  Vec2(Max(sz.x, 0), Max(sz.y, 0))}}
Rows(sz) == -1..Max(sz.y, 0)
Indices(d) == 0..Len(d)
\* The sizes new_default is called with.
Sizes == {Vec2(x, y) : x \in (-NegDim)..MaxDim, y \in (-NegDim)..MaxDim}
\* A predicate of find is the set of the tiles it accepts.
Predicates == SUBSET {"A", "B"}

---------------------------------------------------------------------------
(* str::lines: split after every "\n"; a line loses its final "\n" and     *)
(* then a "\r" that stood right before that "\n".  A last line that no     *)
(* "\n" ends is kept as it is.                                             *)

RECURSIVE FirstNewline(_, _)
FirstNewline(s, i) ==
    IF i > Len(s) THEN 0
    ELSE IF s[i] = NL THEN i
    ELSE FirstNewline(s, i + 1)

RECURSIVE SplitInclusive(_)
SplitInclusive(s) ==
    IF s = <<>> THEN <<>>
    ELSE LET k == FirstNewline(s, 1)
         IN  IF k = 0 THEN <<s>>
             ELSE <<SubSeq(s, 1, k)>> \o SplitInclusive(SubSeq(s, k + 1, Len(s)))

StripLine(l) ==
    IF l = <<>> \/ l[Len(l)] # NL THEN l
    ELSE LET m == SubSeq(l, 1, Len(l) - 1)
         IN  IF m = <<>> \/ m[Len(m)] # CR THEN m
             ELSE SubSeq(m, 1, Len(m) - 1)

Lines(s) ==
    LET parts == SplitInclusive(s)
    IN  [i \in 1..Len(parts) |-> StripLine(parts[i])]

\* s.chars().filter(|&c| c != '\n')
RECURSIVE NonNewlines(_)
NonNewlines(s) ==
    IF s = <<>> THEN <<>>
    ELSE IF s[1] = NL THEN NonNewlines(Tail(s))
    ELSE <<s[1]>> \o NonNewlines(Tail(s))

---------------------------------------------------------------------------
(* Map2d. *)

\* new_default: the length of vec![default; (size.x * size.y) as usize].  A
\* negative product casts to a length above 2^63, which no Vec can hold:
\* the allocation panics (capacity overflow).
new_default_panics(sz) == sz.x * sz.y < 0

new_default(sz, default) == [i \in 1..(sz.x * sz.y) |-> default]

\* parse_grid: s.lines().next().unwrap() panics on a text without lines.
parse_grid_panics(s) == Lines(s) = <<>>

parse_grid_size(s) == Vec2(Len(Lines(s)[1]), Len(Lines(s)))

parse_grid_data(s) ==
    LET cs == NonNewlines(s)
    IN  [i \in 1..Len(cs) |-> CharToTile(cs[i])]

\* index_of with the upper bound on x off by one: pos.x == size.x passes.
index_of_x_off_by_one(sz, pos) ==
    IF pos.x < 0 \/ pos.y < 0 \/ pos.x > sz.x \/ pos.y >= sz.y
    THEN None
    ELSE Some(pos.x + pos.y * sz.x)

\* index_of without its check of pos.y against size.y.
index_of_no_y_bound(sz, pos) ==
    IF pos.x < 0 \/ pos.y < 0 \/ pos.x >= sz.x
    THEN None
    ELSE Some(pos.x + pos.y * sz.x)

index_of(sz, pos) ==
    IF pos.x < 0 \/ pos.y < 0 \/ pos.x >= sz.x \/ pos.y >= sz.y
    THEN None
    ELSE Some(pos.x + pos.y * sz.x)

\* pos_of divides by size.x: a division by zero panics.
pos_of_panics(sz) == sz.x = 0

pos_of(sz, index) == Vec2(TruncRem(index, sz.x), TruncDiv(index, sz.x))

\* get and get_mut index data with what index_of gives: self.data[i] panics
\* when i is no index of data.
get_panics(sz, d, pos) ==
    /\ index_of(sz, pos) # None
    /\ index_of(sz, pos)[1] >= Len(d)

get(sz, d, pos) ==
    IF index_of(sz, pos) = None THEN None
    ELSE Some(d[index_of(sz, pos)[1] + 1])

\* get_mut handing out the cell of the index taken with the height as the
\* row stride.
get_mut_write_height_stride(sz, d, pos, v) ==
    [d EXCEPT ![pos.x + pos.y * sz.y + 1] = v]

\* *map.get_mut(pos).unwrap() = v, for a pos at which get_mut gives Some.
get_mut_write(sz, d, pos, v) ==
    [d EXCEPT ![index_of(sz, pos)[1] + 1] = v]

\* get_row unwraps the indices of the row's two ends and slices data.
get_row_panics(sz, d, y) ==
    \/ index_of(sz, Vec2(0, y)) = None
    \/ index_of(sz, Vec2(sz.x - 1, y)) = None
    \/ index_of(sz, Vec2(sz.x - 1, y))[1] >= Len(d)

get_row(sz, d, y) ==
    SubSeq(d, index_of(sz, Vec2(0, y))[1] + 1,
              index_of(sz, Vec2(sz.x - 1, y))[1] + 1)

\* Iterator::position: the index of the first element the predicate accepts.
RECURSIVE position(_, _, _)
position(d, pred, i) ==
    IF i >= Len(d) THEN None
    ELSE IF d[i + 1] \in pred THEN Some(i)
    ELSE position(d, pred, i + 1)

find_panics(sz, d, pred) ==
    /\ position(d, pred, 0) # None
    /\ pos_of_panics(sz)

find(sz, d, pred) ==
    IF position(d, pred, 0) = None THEN None
    ELSE Some(pos_of(sz, position(d, pred, 0)[1]))

---------------------------------------------------------------------------
(* The rotated view, RotatedMap2d { map, up }: a borrowed re-indexing of a  *)
(* Map2d in which the logical "up" is the owner's direction up.            *)

Dir == {"Up", "Down", "Left", "Right"}

\* The view that slide(map, dir) puts over the map.
slide_up_of(dir) ==
    CASE dir = "Up"    -> "Up"
      [] dir = "Down"  -> "Down"
      [] dir = "Left"  -> "Right"
      [] dir = "Right" -> "Left"

\* The size the view reports: width and height swap for Left and Right.
view_size(sz, up) ==
    IF up \in {"Left", "Right"} THEN Vec2(sz.y, sz.x) ELSE sz

\* Logical to physical: the identity, the half turn and the two quarter turns.
to_physical(sz, up, lp) ==
    CASE up = "Up"    -> lp
      [] up = "Down"  -> Vec2(sz.x - 1 - lp.x, sz.y - 1 - lp.y)
      [] up = "Right" -> Vec2(sz.x - 1 - lp.y, lp.x)
      [] up = "Left"  -> Vec2(lp.y, sz.y - 1 - lp.x)

\* Physical to logical.
to_logical(sz, up, pp) ==
    CASE up = "Up"    -> pp
      [] up = "Down"  -> Vec2(sz.x - 1 - pp.x, sz.y - 1 - pp.y)
      [] up = "Right" -> Vec2(pp.y, sz.x - 1 - pp.x)
      [] up = "Left"  -> Vec2(sz.y - 1 - pp.y, pp.x)

\* The view's get: the owner's get at the translated coordinate.
view_get_panics(sz, d, up, lp) == get_panics(sz, d, to_physical(sz, up, lp))

view_get(sz, d, up, lp) == get(sz, d, to_physical(sz, up, lp))

---------------------------------------------------------------------------
(* The object's life. *)

Init ==
    /\ pc = "start"
    /\ size = Vec2(0, 0)
    /\ data = <<>>
    /\ writes = 0
    /\ ret = [op |-> "none", arg |-> <<>>, res |-> <<>>]
    /\ DaysIdle

Panic(op, arg) ==
    /\ pc' = "panicked"
    /\ ret' = [op |-> op, arg |-> arg, res |-> <<>>]
    /\ UNCHANGED <<size, data, writes>>

\* A call that reads the Map2d and returns res.
Return(op, arg, res) ==
    /\ pc' = "observed"
    /\ ret' = [op |-> op, arg |-> arg, res |-> res]
    /\ UNCHANGED <<size, data, writes>>

NewDefault(sz, default) ==
    /\ pc = "start"
    /\ IF new_default_panics(sz)
       THEN Panic("new_default", sz)
       ELSE /\ pc' = "built"
            /\ size' = sz
            /\ data' = new_default(sz, default)
            /\ ret' = [op |-> "new_default", arg |-> sz, res |-> <<>>]
            /\ UNCHANGED writes

ParseGrid(s) ==
    /\ pc = "start"
    /\ IF parse_grid_panics(s)
       THEN Panic("parse_grid", s)
       ELSE /\ pc' = "built"
            /\ size' = parse_grid_size(s)
            /\ data' = parse_grid_data(s)
            /\ ret' = [op |-> "parse_grid", arg |-> s, res |-> <<>>]
            /\ UNCHANGED writes

IndexOf(pos) ==
    /\ pc = "built"
    /\ Return("index_of", pos, index_of(size, pos))

PosOf(index) ==
    /\ pc = "built"
    /\ IF pos_of_panics(size)
       THEN Panic("pos_of", index)
       ELSE Return("pos_of", index, Some(pos_of(size, index)))

Get(pos) ==
    /\ pc = "built"
    /\ IF get_panics(size, data, pos)
       THEN Panic("get", pos)
       ELSE Return("get", pos, get(size, data, pos))

\* get_mut(pos), and a write of v through the reference when it is Some.
GetMut(pos, v) ==
    /\ pc = "built"
    /\ writes < MaxWrites
    /\ LET arg == [pos |-> pos, val |-> v]
       IN  IF get_panics(size, data, pos)
           THEN Panic("get_mut", arg)
           ELSE IF index_of(size, pos) = None
           THEN /\ ret' = [op |-> "get_mut", arg |-> arg, res |-> None]
                /\ writes' = writes + 1
                /\ UNCHANGED <<pc, size, data>>
           ELSE /\ data' = get_mut_write(size, data, pos, v)
                /\ ret' = [op |-> "get_mut", arg |-> arg, res |-> Some(v)]
                /\ writes' = writes + 1
                /\ UNCHANGED <<pc, size>>

GetRow(y) ==
    /\ pc = "built"
    /\ IF get_row_panics(size, data, y)
       THEN Panic("get_row", y)
       ELSE Return("get_row", y, get_row(size, data, y))

Find(pred) ==
    /\ pc = "built"
    /\ IF find_panics(size, data, pred)
       THEN Panic("find", pred)
       ELSE Return("find", pred, find(size, data, pred))

\* A read through the view that slide(map, dir) builds.
ViewGet(dir, lp) ==
    /\ pc = "built"
    /\ LET arg == [up |-> slide_up_of(dir), pos |-> lp]
       IN  IF view_get_panics(size, data, arg.up, lp)
           THEN Panic("view_get", arg)
           ELSE Return("view_get", arg, view_get(size, data, arg.up, lp))

Next ==
    \/ pc = "start" /\ UNCHANGED dayVars /\ \E sz \in Sizes, v \in GivenTiles : NewDefault(sz, v)
    \/ pc = "start" /\ UNCHANGED dayVars /\ \E s \in Texts : ParseGrid(s)
    \/ pc = "built" /\ UNCHANGED dayVars /\ \E pos \in Coords(size) : IndexOf(pos)
    \/ pc = "built" /\ UNCHANGED dayVars /\ \E i \in Indices(data) : PosOf(i)
    \/ pc = "built" /\ UNCHANGED dayVars /\ \E pos \in Coords(size) : Get(pos)
    \/ pc = "built" /\ UNCHANGED dayVars /\ \E pos \in WriteCoords(size), v \in GivenTiles : GetMut(pos, v)
    \/ pc = "built" /\ UNCHANGED dayVars /\ \E y \in Rows(size) : GetRow(y)
    \/ pc = "built" /\ UNCHANGED dayVars /\ \E pred \in Predicates : Find(pred)
    \/ pc = "built" /\ UNCHANGED dayVars /\ \E dir \in Dir :
           \E lp \in Coords(view_size(size, slide_up_of(dir))) : ViewGet(dir, lp)

Spec == Init /\ [][Next]_vars

---------------------------------------------------------------------------
(* The claims. *)

\* Whether a Map2d exists in the state.
Exists == pc \in {"built", "observed"}

\* A coordinate within the rectangle of size sz, stated without index_of.
InRect(sz, p) == 0 <= p.x /\ p.x < sz.x /\ 0 <= p.y /\ p.y < sz.y

\* C1: after new_default or parse_grid has returned a Map2d, and after any
\* writes through get_mut, data.len() == size.x * size.y.
C1_DataLenIsArea == Exists => Len(data) = size.x * size.y

\* C2: index_of(p) is Some(p.x + p.y * w) if and only if 0 <= p.x < w and
\* 0 <= p.y < h, and None otherwise, negative and too large components
\* included.
C2_IndexOfBounds ==
    ret.op = "index_of" =>
        ret.res = IF InRect(size, ret.arg)
                  THEN Some(ret.arg.x + ret.arg.y * size.x)
                  ELSE None

\* C2's case: index_of has answered Some for a coordinate off both axes,
\* in a grid with a column to the right of it.
C2_Witness ==
    /\ ret.op = "index_of"
    /\ ret.res # None
    /\ ret.arg.x > 0 /\ ret.arg.y > 0
    /\ ret.arg.x < size.x - 1

\* C3: pos_of(index_of(p).unwrap()) == p for every in-bounds p, and pos_of
\* inverts the row-major mapping on every index below w * h.
C3_RoundTrip ==
    /\ (ret.op = "index_of" /\ ret.res # None) =>
           /\ ~pos_of_panics(size)
           /\ pos_of(size, ret.res[1]) = ret.arg
    /\ (ret.op = "pos_of" /\ ret.arg < size.x * size.y) =>
           /\ pc # "panicked"
           /\ index_of(size, ret.res[1]) = Some(ret.arg)

\* C4: get(pos) and get_mut(pos) return None exactly when pos is out of
\* bounds, and otherwise yield the cell at index pos.x + pos.y * size.x; an
\* out-of-bounds access never panics.
C4_GetBoundsChecked ==
    ret.op \in {"get", "get_mut"} =>
        LET p == IF ret.op = "get" THEN ret.arg ELSE ret.arg.pos
        IN  /\ pc # "panicked"
            /\ IF InRect(size, p)
               THEN ret.res = Some(data[p.x + p.y * size.x + 1])
               ELSE ret.res = None

\* C5: parse_grid returns a grid as wide as the first line is long and as
\* high as the text has non-empty lines; when all lines have the same
\* length, get((x, y)) is f of the x-th character of the y-th line.
C5_ParseFidelity ==
    (ret.op = "parse_grid" /\ pc = "built") =>
        LET ls == Lines(ret.arg)
        IN  /\ size.x = Len(ls[1])
            /\ size.y = Cardinality({i \in 1..Len(ls) : ls[i] # <<>>})
            /\ (\A i \in 1..Len(ls) : Len(ls[i]) = Len(ls[1])) =>
                   \A p \in Coords(size) :
                       InRect(size, p) =>
                           /\ ~get_panics(size, data, p)
                           /\ get(size, data, p)
                                  = Some(CharToTile(ls[p.y + 1][p.x + 1]))

\* C6: new_default with a negative dimension fails fast: it never returns.
C6_NegativeSizeFailsFast ==
    (ret.op = "new_default" /\ (ret.arg.x < 0 \/ ret.arg.y < 0)) =>
        pc = "panicked"

C8_GetRow ==
    (ret.op = "get_row" /\ 0 <= ret.arg /\ ret.arg < size.y) =>
        /\ pc # "panicked"
        /\ Len(ret.res) = size.x
        /\ \A x \in 0..(size.x - 1) :
              /\ ~get_panics(size, data, Vec2(x, ret.arg))
              /\ get(size, data, Vec2(x, ret.arg)) = Some(ret.res[x + 1])

\* C9: find(predicate) returns the coordinate of the matching cell that is
\* first in row-major order (smallest y, then smallest x), and None exactly
\* when no cell satisfies the predicate.
C9_FindFirst ==
    ret.op = "find" =>
        LET pred == ret.arg
            matching == {p \in Coords(size) :
                            /\ InRect(size, p)
                            /\ ~get_panics(size, data, p)
                            /\ get(size, data, p)[1] \in pred}
        IN  /\ pc # "panicked"
            /\ IF \A i \in 1..Len(data) : data[i] \notin pred
               THEN ret.res = None
               ELSE /\ ret.res # None
                    /\ ret.res[1] \in matching
                    /\ \A q \in matching :
                          \/ ret.res[1].y < q.y
                          \/ ret.res[1].y = q.y /\ ret.res[1].x <= q.x

\* C10: for each logical up (the one of the view that was read through, and
\* every one is), the logical-to-physical translation is a
\* bijection from the logical rectangle (width and height swapped for Left
\* and Right) onto the owner's in-bounds coordinates: to physical and back
\* gives the coordinate again, and no physical coordinate is skipped or
\* produced twice.
C10_TranslationBijective ==
    ret.op = "view_get" =>
        LET up == ret.arg.up
            ls == IF up \in {"Left", "Right"} THEN Vec2(size.y, size.x) ELSE size
            logical == {lp \in Coords(ls) : InRect(ls, lp)}
            image == {to_physical(size, up, lp) : lp \in logical}
            owned == {pp \in Coords(size) : index_of(size, pp) # None}
        IN  /\ view_size(size, up) = ls
            /\ \A lp \in logical :
                  to_logical(size, up, to_physical(size, up, lp)) = lp
            /\ image = owned
            /\ Cardinality(image) = Cardinality(logical)

\* C10's case: a read through a quarter-turned view of a grid that is not
\* square has reached a cell, from a logical coordinate off both axes.
C10_Witness ==
    /\ ret.op = "view_get"
    /\ ret.arg.up \in {"Left", "Right"}
    /\ size.x # size.y
    /\ ret.res # None
    /\ ret.arg.pos.x > 0 /\ ret.arg.pos.y > 0

---------------------------------------------------------------------------
(* What the grids that keep the invariant satisfy.  C3, C4, C8 and C9 fail  *)
(* only on grids that new_default and parse_grid should not have returned   *)
(* (and C8 on a grid of width 0); these state how far each one holds.       *)

WellFormed == size.x >= 0 /\ size.y >= 0 /\ Len(data) = size.x * size.y

\* pos_of(index_of(p).unwrap()) == p holds for every in-bounds p of every grid.
RoundTripFromCoordinate ==
    (ret.op = "index_of" /\ ret.res # None) =>
        /\ ~pos_of_panics(size)
        /\ pos_of(size, ret.res[1]) = ret.arg

\* An out-of-bounds get or get_mut is None, without a panic, on every grid.
OutOfBoundsIsNone ==
    (/\ ret.op \in {"get", "get_mut"}
     /\ ~InRect(size, IF ret.op = "get" THEN ret.arg ELSE ret.arg.pos)) =>
        pc # "panicked" /\ ret.res = None

RoundTripOnWellFormed == WellFormed => C3_RoundTrip
GetOnWellFormed == WellFormed => C4_GetBoundsChecked
GetRowOnWellFormedWide == (WellFormed /\ size.x > 0) => C8_GetRow
FindOnWellFormed == WellFormed => C9_FindFirst

---------------------------------------------------------------------------
(* Day 14: the platform of rocks, a Map2d<Cell>, and its slide.             *)

\* The largest area, width times height, of a platform.
MaxCells == 6

Cell == {"Empty", "Fixed", "Mobile"}

\* The platforms parse gives from rectangular text: every width and height
\* from 1 on whose area is at most MaxCells.
PlatformSizes ==
    {sz \in {Vec2(w, h) : w \in 1..MaxCells, h \in 1..MaxCells} :
        sz.x * sz.y <= MaxCells}

\* *view.get_mut(lp).unwrap() = v: the owner's write at the translated
\* coordinate.
view_get_mut_write(sz, d, up, lp, v) ==
    get_mut_write(sz, d, to_physical(sz, up, lp), v)

\* for y2 in stop..end { *map.get_mut(Vec2::new(x, y2)).unwrap() = Mobile }
RECURSIVE place_mobile(_, _, _, _, _, _)
place_mobile(sz, d, up, x, y2, end) ==
    IF y2 >= end THEN d
    ELSE place_mobile(sz, view_get_mut_write(sz, d, up, Vec2(x, y2), "Mobile"),
                      up, x, y2 + 1, end)

\* The loop of slide_up_single from row y on, and the placing after it.
RECURSIVE slide_up_rows(_, _, _, _, _, _, _)
slide_up_rows(sz, d, up, x, y, stop, mobile_count) ==
    IF y >= view_size(sz, up).y
    THEN place_mobile(sz, d, up, x, stop, stop + mobile_count)
    ELSE LET pos == Vec2(x, y)
             cell == view_get(sz, d, up, pos)[1]
         IN  CASE cell = "Empty" ->
                    slide_up_rows(sz, d, up, x, y + 1, stop, mobile_count)
               [] cell = "Mobile" ->
                    slide_up_rows(sz, view_get_mut_write(sz, d, up, pos, "Empty"),
                                  up, x, y + 1, stop, mobile_count + 1)
               [] cell = "Fixed" ->
                    slide_up_rows(sz,
                                  place_mobile(sz, d, up, x, stop,
                                               stop + mobile_count),
                                  up, x, y + 1, y + 1, 0)

slide_up_single(sz, d, up, x) == slide_up_rows(sz, d, up, x, 0, 0, 0)

\* The loop of slide_up from column x on.
RECURSIVE slide_up_columns(_, _, _, _)
slide_up_columns(sz, d, up, x) ==
    IF x >= view_size(sz, up).x THEN d
    ELSE slide_up_columns(sz, slide_up_single(sz, d, up, x), up, x + 1)

slide_up(sz, d, up) == slide_up_columns(sz, d, up, 0)

slide(sz, d, dir) == slide_up(sz, d, slide_up_of(dir))

to_vec2(dir) ==
    CASE dir = "Up"    -> Vec2(0, -1)
      [] dir = "Down"  -> Vec2(0, 1)
      [] dir = "Left"  -> Vec2(-1, 0)
      [] dir = "Right" -> Vec2(1, 0)

\* The direct slide toward dir, written on the owner's coordinates with no
\* view: a Fixed cell stays; the other cells between two stops (an edge or a
\* Fixed cell) along dir keep their number of Mobile cells, packed against
\* the stop on the side of dir.
CellAt(sz, d, p) == d[p.x + p.y * sz.x + 1]

Step(p, v, k) == Vec2(p.x + k * v.x, p.y + k * v.y)

\* The cells after p toward v with no stop between p and them.
Run(sz, d, p, v) ==
    {Step(p, v, k) : k \in
        {k \in 1..(sz.x + sz.y) :
            \A j \in 1..k : /\ InRect(sz, Step(p, v, j))
                            /\ CellAt(sz, d, Step(p, v, j)) # "Fixed"}}

DirectSlide(sz, d, dir) ==
    LET v == to_vec2(dir)
        w == Vec2(-v.x, -v.y)
        after(p) ==
            LET ahead == Run(sz, d, p, v)
                stretch == ahead \cup {p} \cup Run(sz, d, p, w)
                mobile == {q \in stretch : CellAt(sz, d, q) = "Mobile"}
            IN  IF CellAt(sz, d, p) = "Fixed" THEN "Fixed"
                ELSE IF Cardinality(ahead) < Cardinality(mobile) THEN "Mobile"
                ELSE "Empty"
    IN  [i \in 1..Len(d) |-> after(Vec2((i - 1) % sz.x, (i - 1) \div sz.x))]

InitSlide ==
    /\ pc = "built"
    /\ size \in PlatformSizes
    /\ data \in [1..(size.x * size.y) -> Cell]
    /\ writes = 0
    /\ ret = [op |-> "parse", arg |-> <<>>, res |-> <<>>]
    /\ DaysIdle

\* slide(&mut map, dir)
Slide(dir) ==
    /\ pc = "built"
    /\ data' = slide(size, data, dir)
    /\ ret' = [op |-> "slide", arg |-> [dir |-> dir, map |-> data], res |-> <<>>]
    /\ UNCHANGED <<pc, size, writes, dayVars>>

NextSlide == \E dir \in Dir : Slide(dir)

SpecSlide == InitSlide /\ [][NextSlide]_vars

\* C11: for every grid and every direction D of Up, Down, Left and Right,
\* slide(map, D) leaves the grid that a direct slide toward D gives: every
\* Mobile cell moved toward D until the edge, a Fixed cell or another Mobile
\* cell stops it, and every Fixed cell where it was.
C11_SlideIsDirectSlide ==
    ret.op = "slide" => data = DirectSlide(size, ret.arg.map, ret.arg.dir)

\* The slide-up routine over the view whose up is D is the direct slide
\* toward D, for every D; and slide(map, D) is the direct slide toward the
\* up of the view it chooses.
SlideUpOverViewIsDirectSlide ==
    \A up \in Dir : slide_up(size, data, up) = DirectSlide(size, data, up)

SlideIsDirectSlideTowardItsView ==
    ret.op = "slide" =>
        data = DirectSlide(size, ret.arg.map, slide_up_of(ret.arg.dir))

\* slide(map, Up) and slide(map, Down) are the direct slides.
SlideUpDownIsDirectSlide ==
    (ret.op = "slide" /\ ret.arg.dir \in {"Up", "Down"}) => C11_SlideIsDirectSlide

---------------------------------------------------------------------------
(* Day 5: Mapping::query_point, Mapping::query_range and RangeQueryIter.    *)

\* The source ids of the chunks and of the queried ranges are 0..MaxId.
MaxId == 5
\* The most chunks a Mapping holds.
MaxChunks == 2

Offsets == {-2, 3}

MappingChunk(source_start, source_end, offset) ==
    [source_start |-> source_start, source_end |-> source_end, offset |-> offset]

\* The chunks a line "dest source len" parses to, with len >= 1.
Chunks ==
    {MappingChunk(s, e, o) : s \in 0..MaxId, e \in 0..MaxId, o \in Offsets}
        \ {c \in [source_start : 0..MaxId, source_end : 0..MaxId, offset : Offsets] :
              c.source_start > c.source_end}

\* Mapping::chunks: non-overlapping, sorted by source_start.
Mappings ==
    {cs \in UNION {[1..n -> Chunks] : n \in 0..MaxChunks} :
        \A i \in 1..(Len(cs) - 1) : cs[i].source_end < cs[i + 1].source_start}

\* The non-empty source ranges a..=b.
SourceRanges == {r \in [start : 0..MaxId, end : 0..MaxId] : r.start <= r.end}

RECURSIVE query_point_from(_, _, _)
query_point_from(chunks, source_id, i) ==
    IF i > Len(chunks) THEN source_id
    ELSE IF source_id >= chunks[i].source_start /\ source_id <= chunks[i].source_end
    THEN source_id + chunks[i].offset
    ELSE query_point_from(chunks, source_id, i + 1)

query_point(chunks, source_id) == query_point_from(chunks, source_id, 1)

\* position(|chunk| chunk.source_end >= start).unwrap_or(chunks.len())
RECURSIVE first_chunk_idx(_, _, _)
first_chunk_idx(chunks, start, i) ==
    IF i >= Len(chunks) THEN Len(chunks)
    ELSE IF chunks[i + 1].source_end >= start THEN i
    ELSE first_chunk_idx(chunks, start, i + 1)

Min(a, b) == IF a <= b THEN a ELSE b

InitDay5 ==
    /\ MapIdle
    /\ OtherDaysIdle("d5")
    /\ \E chunks \in Mappings :
           d5 = [pc |-> "start", chunks |-> chunks, range |-> <<>>,
                 source_start |-> 0, source_end |-> 0, chunk_idx |-> 0,
                 out |-> <<>>]

\* mapping.query_range(range)
QueryRange(range) ==
    /\ d5.pc = "start"
    /\ d5' = [d5 EXCEPT !.pc = "iter",
                        !.range = range,
                        !.source_start = range.start,
                        !.source_end = range.end,
                        !.chunk_idx = first_chunk_idx(d5.chunks, range.start, 0)]
    /\ UNCHANGED <<mapVars, d14, d1, util, d12, d15, d19, d10>>

\* RangeQueryIter::next, its result pushed to out; None ends the iteration.
IterNext ==
    /\ d5.pc = "iter"
    /\ IF d5.source_start > d5.source_end
       THEN d5' = [d5 EXCEPT !.pc = "done"]
       ELSE IF d5.chunk_idx >= Len(d5.chunks)
       THEN d5' = [d5 EXCEPT
                !.source_start = d5.source_end + 1,
                !.out = Append(@, MappingChunk(d5.source_start, d5.source_end, 0))]
       ELSE LET map_chunk == d5.chunks[d5.chunk_idx + 1]
                prefix == map_chunk.source_start > d5.source_start
                source_end == IF prefix THEN map_chunk.source_start - 1
                              ELSE Min(map_chunk.source_end, d5.source_end)
                offset == IF prefix THEN 0 ELSE map_chunk.offset
            IN  d5' = [d5 EXCEPT
                    !.chunk_idx = IF prefix THEN @ ELSE @ + 1,
                    !.source_start = source_end + 1,
                    !.out = Append(@, MappingChunk(d5.source_start, source_end,
                                                   offset))]
    /\ UNCHANGED <<mapVars, d14, d1, util, d12, d15, d19, d10>>

NextDay5 ==
    \/ \E range \in SourceRanges : QueryRange(range)
    \/ IterNext

SpecDay5 == InitDay5 /\ [][NextDay5]_vars

\* The yielded chunks cover a..=b exactly: contiguous and ascending from a
\* to b, none empty.
CoversExactly(out, a, b) ==
    /\ out # <<>>
    /\ out[1].source_start = a
    /\ out[Len(out)].source_end = b
    /\ \A i \in 1..Len(out) : out[i].source_start <= out[i].source_end
    /\ \A i \in 1..(Len(out) - 1) : out[i + 1].source_start = out[i].source_end + 1

\* Each yielded chunk's offset is query_point(id) - id for every id in it.
OffsetsAgree(chunks, out) ==
    \A i \in 1..Len(out) :
        \A id \in out[i].source_start..out[i].source_end :
            out[i].offset = query_point(chunks, id) - id

\* C12: for a Mapping of non-overlapping chunks sorted by source_start and
\* every non-empty source range a..=b, the chunks query_range yields cover
\* a..=b exactly (contiguous, ascending, the first starting at a, the last
\* ending at b, none reaching outside), and each one's offset is
\* query_point(id) - id for every id in it.
C12_QueryRangeCovers ==
    d5.pc = "done" =>
        /\ CoversExactly(d5.out, d5.range.start, d5.range.end)
        /\ OffsetsAgree(d5.chunks, d5.out)

\* What query_range keeps: the chunks are contiguous and ascending from a,
\* they reach b at least, and the offsets agree with query_point.
QueryRangeCoversAtLeast ==
    d5.pc = "done" =>
        /\ d5.out # <<>>
        /\ CoversExactly(d5.out, d5.range.start, d5.out[Len(d5.out)].source_end)
        /\ d5.out[Len(d5.out)].source_end >= d5.range.end
        /\ OffsetsAgree(d5.chunks, d5.out)

\* The range is covered exactly whenever it does not end in a gap before a
\* chunk of the mapping.
EndsInGap(chunks, range) ==
    /\ \A i \in 1..Len(chunks) :
          range.end < chunks[i].source_start \/ chunks[i].source_end < range.end
    /\ \E i \in 1..Len(chunks) : range.end < chunks[i].source_start

QueryRangeCoversUnlessEndInGap ==
    (d5.pc = "done" /\ ~EndsInGap(d5.chunks, d5.range)) => C12_QueryRangeCovers

---------------------------------------------------------------------------
(* Day 1: Part2Digits, the iterator over the digits of a line.  A line is   *)
(* the sequence of its characters, all ASCII.                               *)

\* A line is up to MaxPieces of the pieces below, one after the other.
MaxPieces == 3

DIGIT_STRS ==
    << <<"o", "n", "e">>, <<"t", "w", "o">>, <<"t", "h", "r", "e", "e">>,
       <<"f", "o", "u", "r">>, <<"f", "i", "v", "e">>, <<"s", "i", "x">>,
       <<"s", "e", "v", "e", "n">>, <<"e", "i", "g", "h", "t">>,
       <<"n", "i", "n", "e">> >>

DigitChars == <<"0", "1", "2", "3", "4", "5", "6", "7", "8", "9">>

\* The nine words, "zero", digit characters, and pieces of words that make
\* words overlap ("eigh" + "two", "on" + "eight", "tw" + "one") or break off.
Pieces ==
    {DIGIT_STRS[i] : i \in 1..9}
        \cup {<<"z", "e", "r", "o">>, <<"0">>, <<"7">>, <<"x">>, <<"e">>,
              <<"e", "i", "g", "h">>, <<"o", "n">>, <<"t", "w">>,
              <<"n", "i", "n">>, <<"s", "e", "v">>}

RECURSIVE Concat(_)
Concat(ps) == IF ps = <<>> THEN <<>> ELSE Head(ps) \o Concat(Tail(ps))

Day1Lines == {Concat(ps) : ps \in UNION {[1..n -> Pieces] : n \in 0..MaxPieces}}

\* char::to_digit(10)
to_digit(c) ==
    IF \E i \in 1..10 : DigitChars[i] = c
    THEN Some((CHOOSE i \in 1..10 : DigitChars[i] = c) - 1)
    ELSE None

starts_with(source, str) ==
    Len(source) >= Len(str) /\ SubSeq(source, 1, Len(str)) = str

\* for (digit_idx, digit_str) in DIGIT_STRS.iter().enumerate(): the first
\* digit_idx whose digit_str the source starts with.
RECURSIVE find_digit_str(_, _)
find_digit_str(source, digit_idx) ==
    IF digit_idx >= Len(DIGIT_STRS) THEN None
    ELSE IF starts_with(source, DIGIT_STRS[digit_idx + 1]) THEN Some(digit_idx)
    ELSE find_digit_str(source, digit_idx + 1)

\* The source left after a word was found, were the whole word skipped.
after_digit_str_whole_word(source, digit_idx) ==
    SubSeq(source, Len(DIGIT_STRS[digit_idx + 1]) + 1, Len(source))

\* The source left after a word was found: self.source = &self.source[1..]
after_digit_str(source, digit_idx) == Tail(source)

\* Part2Digits::next: the item returned and the source left.
RECURSIVE part2_next(_)
part2_next(source) ==
    IF source = <<>> THEN [item |-> None, source |-> source]
    ELSE IF to_digit(Head(source)) # None
    THEN [item |-> to_digit(Head(source)), source |-> Tail(source)]
    ELSE IF find_digit_str(source, 0) # None
    THEN [item |-> Some(find_digit_str(source, 0)[1] + 1),
          source |-> after_digit_str(source, find_digit_str(source, 0)[1])]
    ELSE part2_next(Tail(source))

InitDay1 ==
    /\ MapIdle
    /\ OtherDaysIdle("d1")
    /\ \E line \in Day1Lines :
           d1 = [pc |-> "iter", line |-> line, source |-> line, out |-> <<>>]

\* Part2Digits::next, its item pushed to out; None ends the iteration.
Part2Next ==
    /\ d1.pc = "iter"
    /\ LET r == part2_next(d1.source)
       IN  d1' = [d1 EXCEPT !.pc = IF r.item = None THEN "done" ELSE "iter",
                            !.source = r.source,
                            !.out = @ \o r.item]
    /\ UNCHANGED <<mapVars, d14, d5, util, d12, d15, d19, d10>>

NextDay1 == Part2Next

SpecDay1 == InitDay1 /\ [][NextDay1]_vars

\* The digit that position p of the line stands for: that of the digit
\* character there, or that of the word that begins there; -1 when neither.
WordsAt(line, p) ==
    {k \in 1..9 : /\ p + Len(DIGIT_STRS[k]) - 1 <= Len(line)
                  /\ \A j \in 1..Len(DIGIT_STRS[k]) :
                        line[p + j - 1] = DIGIT_STRS[k][j]}

DigitAt(line, p) ==
    IF \E i \in 1..10 : DigitChars[i] = line[p]
    THEN (CHOOSE i \in 1..10 : DigitChars[i] = line[p]) - 1
    ELSE IF WordsAt(line, p) # {} THEN CHOOSE k \in WordsAt(line, p) : TRUE
    ELSE -1

IsDigitValue(v) == v >= 0

DigitsOf(line) ==
    SelectSeq([p \in 1..Len(line) |-> DigitAt(line, p)], IsDigitValue)

\* C13: Part2Digits yields, in the order of the start positions, exactly one
\* digit for every position of an ASCII line at which a digit character
\* stands or one of the words one..nine begins, overlapping words included
\* ("eightwo" gives 8 then 2), and nothing for "zero" or any other text; no
\* position has two words beginning at it.
C13_Part2Digits ==
    /\ \A p \in 1..Len(d1.line) : Cardinality(WordsAt(d1.line, p)) <= 1
    /\ d1.pc = "done" => d1.out = DigitsOf(d1.line)

\* C13's case: the digits of a line in which a word begins inside another
\* one, and which holds "zero", have all been yielded.
C13_Witness ==
    /\ d1.pc = "done"
    /\ \E p \in 1..Len(d1.line), q \in 1..Len(d1.line) :
          /\ WordsAt(d1.line, p) # {} /\ WordsAt(d1.line, q) # {}
          /\ p < q
          /\ q < p + Len(DIGIT_STRS[CHOOSE k \in WordsAt(d1.line, p) : TRUE])
    /\ \E p \in 1..Len(d1.line) : starts_with(SubSeq(d1.line, p, Len(d1.line)),
                                              <<"z", "e", "r", "o">>)
    /\ Len(d1.out) >= 2

---------------------------------------------------------------------------
(* util: binomial_coefficient.                                             *)

\* binomial_coefficient is called with 0 <= k <= n <= MaxN.  Up to n = 29
\* every product of the loop is below 2^31, far from the ends of i64.
MaxN == 28

\* The loop's body with the division made before the multiplication.
binomial_step_divide_first(result, n, i) == TruncDiv(result, i + 1) * (n - i)

\* result *= n - i; result /= i + 1;
binomial_step(result, n, i) == TruncDiv(result * (n - i), i + 1)

\* The remainder that the division of the body at i leaves.
binomial_step_rem(result, n, i) == TruncRem(result * (n - i), i + 1)

InitUtil ==
    /\ MapIdle
    /\ OtherDaysIdle("util")
    /\ \E n \in 0..MaxN : \E k \in 0..n :
           util = [pc |-> "loop", n |-> n, k |-> k, i |-> 0, result |-> 1,
                   rem |-> 0]

\* One turn of for i in 0..k.
BinomialStep ==
    /\ util.pc = "loop"
    /\ util.i < util.k
    /\ util' = [util EXCEPT
            !.result = binomial_step(util.result, util.n, util.i),
            !.rem = binomial_step_rem(util.result, util.n, util.i),
            !.i = @ + 1]
    /\ UNCHANGED <<mapVars, d14, d5, d1, d12, d15, d19, d10>>

\* The loop is over: result is returned.
BinomialReturn ==
    /\ util.pc = "loop"
    /\ util.i >= util.k
    /\ util' = [util EXCEPT !.pc = "done"]
    /\ UNCHANGED <<mapVars, d14, d5, d1, d12, d15, d19, d10>>

NextUtil == BinomialStep \/ BinomialReturn

SpecUtil == InitUtil /\ [][NextUtil]_vars

\* The number of ways to choose k of n items, by the rule of Pascal's
\* triangle: row n as a function on 0..n.
\* The row below a row of the triangle, its entries from k on:
\* each the sum of the two above it.
RECURSIVE RowBelow(_, _)
RowBelow(above, k) ==
    IF k > Len(above) + 1 THEN <<>>
    ELSE <<(IF k > 1 THEN above[k - 1] ELSE 0)
           + (IF k <= Len(above) THEN above[k] ELSE 0)>>
         \o RowBelow(above, k + 1)

\* Row n of the triangle: PascalRow(n)[k + 1] is the number of ways to
\* choose k of n.
RECURSIVE PascalRow(_)
PascalRow(n) == IF n = 0 THEN <<1>> ELSE RowBelow(PascalRow(n - 1), 1)

RECURSIVE Factorial(_)
Factorial(n) == IF n <= 0 THEN 1 ELSE n * Factorial(n - 1)

\* The n whose factorial is below 2^31, and the n whose subsets are counted.
FactorialRange == 0..12
SubsetRange == 0..8

\* C14: for all 0 <= k <= n within the bounded range,
\* binomial_coefficient(n, k) is the number of ways to choose k items from n
\* (the entry of Pascal's triangle; the number of k-subsets, counted for the
\* small n), n!/(k!(n-k)!) with an exact division; and every division in the
\* loop is exact: it leaves remainder 0, and the result after i turns is the
\* number of ways to choose i of n.
C14_BinomialCoefficient ==
    /\ util.rem = 0
    /\ util.result = PascalRow(util.n)[util.i + 1]
    /\ util.pc = "done" =>
          /\ util.i = util.k
          /\ util.n \in FactorialRange =>
                util.result * Factorial(util.k) * Factorial(util.n - util.k)
                    = Factorial(util.n)
          /\ util.n \in SubsetRange =>
                util.result
                    = Cardinality({S \in SUBSET (1..util.n) :
                                      Cardinality(S) = util.k})

\* C14's case: a coefficient from the middle of a long row has been
\* returned, after divisions by more than two numbers.
C14_Witness ==
    /\ util.pc = "done"
    /\ util.n > 20
    /\ util.k > 5 /\ util.k < util.n - 5
    /\ util.result > 1000

---------------------------------------------------------------------------
(* Day 12: can_fit and count_ways_to_fit with its memo.                     *)

\* The longest row of cells and the most blocks of a Row.
MaxRowLen == 6
MaxBlocks == 3

\* Row::cells holds the bytes of '.', '#' and '?'; Row::blocks holds what
\* parse reads between the commas, a usize each.
RowCells == {".", "#", "?"}
BlockLens == 0..2

Rows12 ==
    [cells : UNION {[1..n -> RowCells] : n \in 0..MaxRowLen},
     blocks : UNION {[1..n -> BlockLens] : n \in 0..MaxBlocks}]

RECURSIVE SumSeq(_)
SumSeq(q) == IF q = <<>> THEN 0 ELSE Head(q) + SumSeq(Tail(q))

\* can_fit(cells, pos, block), pos counted from 0.
can_fit(cells, pos, block) ==
    IF pos + block > Len(cells) THEN FALSE
    ELSE LET postfix == IF pos + block < Len(cells) THEN cells[pos + block + 1]
                        ELSE "."
         IN  /\ ~(\E i \in 1..pos : cells[i] = "#")
             /\ ~(\E i \in (pos + 1)..(pos + block) : cells[i] = ".")
             /\ postfix # "#"

\* The memo's key that leaves the length of the cells out.
memo_key_blocks_only(cells, blocks) == <<0, Len(blocks)>>

\* The memo's key: (cells.len(), blocks.len()).
memo_key(cells, blocks) == <<Len(cells), Len(blocks)>>

\* count_ways_to_fit(cells, blocks, memo): the count returned, the memo as
\* the call leaves it, and the number of answers taken from the memo.
RECURSIVE count_ways_to_fit(_, _, _, _)
RECURSIVE count_positions(_, _, _, _, _, _, _)

\* for pos in 0..=slack, from pos on, with the sum so far.
count_positions(cells, blocks, memo, hits, pos, slack, sum) ==
    IF pos > slack THEN [sum |-> sum, memo |-> memo, hits |-> hits]
    ELSE IF can_fit(cells, pos, blocks[1])
    THEN LET cut == Min(Len(cells), pos + blocks[1] + 1)
             remaining == SubSeq(cells, cut + 1, Len(cells))
             r == count_ways_to_fit(remaining, Tail(blocks), memo, hits)
         IN  count_positions(cells, blocks, r.memo, r.hits, pos + 1, slack,
                             sum + r.res)
    ELSE count_positions(cells, blocks, memo, hits, pos + 1, slack, sum)

count_ways_to_fit(cells, blocks, memo, hits) ==
    IF blocks = <<>>
    THEN [res |-> IF \A i \in 1..Len(cells) : cells[i] # "#" THEN 1 ELSE 0,
          memo |-> memo, hits |-> hits]
    ELSE IF memo_key(cells, blocks) \in DOMAIN memo
    THEN [res |-> memo[memo_key(cells, blocks)], memo |-> memo,
          hits |-> hits + 1]
    ELSE LET slack == Len(cells) - SumSeq(blocks) - (Len(blocks) - 1)
         IN  IF slack < 0 THEN [res |-> 0, memo |-> memo, hits |-> hits]
             ELSE LET r == count_positions(cells, blocks, memo, hits, 0, slack, 0)
                  IN  [res |-> r.sum,
                       memo |-> (memo_key(cells, blocks) :> r.sum) @@ r.memo,
                       hits |-> r.hits]

InitDay12 ==
    /\ MapIdle
    /\ OtherDaysIdle("d12")
    /\ \E row \in Rows12 :
           d12 = [pc |-> "start", cells |-> row.cells, blocks |-> row.blocks,
                  res |-> 0, hits |-> 0]

\* count_ways_to_fit(&row.cells, &row.blocks, &mut HashMap::new())
CountWaysToFit ==
    /\ d12.pc = "start"
    /\ LET r == count_ways_to_fit(d12.cells, d12.blocks, <<>>, 0)
       IN  d12' = [d12 EXCEPT !.pc = "done", !.res = r.res, !.hits = r.hits]
    /\ UNCHANGED <<mapVars, d14, d5, d1, util, d15, d19, d10>>

NextDay12 == CountWaysToFit

SpecDay12 == InitDay12 /\ [][NextDay12]_vars

\* The lengths of the maximal runs of '#' in a filled row, in order; run is
\* the length of the run that ends before position i.
RECURSIVE RunsFrom(_, _, _)
RunsFrom(filled, i, run) ==
    IF i > Len(filled) THEN (IF run > 0 THEN <<run>> ELSE <<>>)
    ELSE IF filled[i] = "#" THEN RunsFrom(filled, i + 1, run + 1)
    ELSE (IF run > 0 THEN <<run>> ELSE <<>>) \o RunsFrom(filled, i + 1, 0)

\* The unmemoized enumeration: every replacement of each '?' by '.' or '#'.
Replacements(cells) ==
    {filled \in [1..Len(cells) -> {".", "#"}] :
        \A i \in 1..Len(cells) : cells[i] # "?" => filled[i] = cells[i]}

WaysToFit(cells, blocks) ==
    Cardinality({filled \in Replacements(cells) : RunsFrom(filled, 1, 0) = blocks})

\* C15: for every row of cells over '.', '#', '?' and every list of block
\* lengths, count_ways_to_fit with its memo keyed on (remaining cells length,
\* remaining blocks length) returns the number of ways to replace each '?'
\* by '.' or '#' such that the maximal runs of '#' have exactly the given
\* lengths in order, the number an unmemoized enumeration gives.
C15_CountWaysToFit ==
    d12.pc = "done" => d12.res = WaysToFit(d12.cells, d12.blocks)

\* C15 amended: the same for every list of block lengths of 1 or more.
C15_CountWaysToFitPositiveBlocks ==
    (d12.pc = "done" /\ \A i \in 1..Len(d12.blocks) : d12.blocks[i] >= 1)
        => d12.res = WaysToFit(d12.cells, d12.blocks)

\* C15's case: a count for blocks of 1 or more was returned that took an
\* answer from the memo and is the number of several ways.
C15_Witness ==
    /\ d12.pc = "done"
    /\ \A i \in 1..Len(d12.blocks) : d12.blocks[i] >= 1
    /\ d12.hits > 0
    /\ d12.res > 1
    /\ \E i \in 1..Len(d12.cells) : d12.cells[i] = "#"

---------------------------------------------------------------------------
(* Day 14: solve_part_2, the spin cycles.  map is the Map2d of the          *)
(* variables size and data; d14 holds the other locals.                     *)

\* The platforms spun have sides up to MaxSide and up to MaxRocks cells that
\* are not Empty.
MaxSide == 3
MaxRocks == 4

\* for i in 0..1_000_000_000, and the cycles asked for.
TotalCycles == 1000000000

\* let cycle = |map| { slide Up; slide Left; slide Down; slide Right }
cycle(sz, d) ==
    slide(sz, slide(sz, slide(sz, slide(sz, d, "Up"), "Left"), "Down"), "Right")

\* CacheKey::from(&map): the bitmap of the Mobile cells, as the set of the
\* bits that are set.
CacheKey(d) == {i \in 0..(Len(d) - 1) : d[i + 1] = "Mobile"}

\* load(&map)
RECURSIVE load_from(_, _, _)
load_from(sz, d, i) ==
    IF i >= Len(d) THEN 0
    ELSE (IF d[i + 1] # "Mobile" THEN 0 ELSE sz.y - pos_of(sz, i).y)
         + load_from(sz, d, i + 1)

load(sz, d) == load_from(sz, d, 0)

\* The cycles left, were the preamble not taken off.
remaining_of_total(preamble, period) == TotalCycles % period

\* let remaining = (1_000_000_000 - preamble) % period
remaining(preamble, period) == (TotalCycles - preamble) % period

SpinPlatforms(sz) ==
    LET area == sz.x * sz.y
    IN  UNION {
            {[i \in 1..area |-> IF i \in rocks THEN kind[i] ELSE "Empty"] :
                kind \in [rocks -> {"Fixed", "Mobile"}]} :
            rocks \in {r \in SUBSET (1..area) : Cardinality(r) <= MaxRocks}}

InitSpin ==
    /\ pc = "built"
    /\ size \in {Vec2(w, h) : w \in 1..MaxSide, h \in 1..MaxSide}
    /\ data \in SpinPlatforms(size)
    /\ writes = 0
    /\ ret = [op |-> "parse", arg |-> <<>>, res |-> <<>>]
    /\ OtherDaysIdle("d14")
    /\ d14 = [pc |-> "search", input |-> data, seen |-> <<>>, i |-> 0,
              first_seen |-> 0, second_seen |-> 0, remaining |-> 0,
              cycled |-> 0, load |-> 0]

\* One turn of for i in 0..1_000_000_000: the insert into seen, then the
\* break or a cycle.
SpinSearch ==
    /\ d14.pc = "search"
    /\ d14.i < TotalCycles
    /\ LET key == CacheKey(data)
       IN  IF key \in DOMAIN d14.seen
           THEN /\ d14' = [d14 EXCEPT !.pc = "found",
                                      !.first_seen = d14.seen[key],
                                      !.second_seen = d14.i,
                                      !.seen = (key :> d14.i) @@ @]
                /\ UNCHANGED data
           ELSE /\ d14' = [d14 EXCEPT !.seen = (key :> d14.i) @@ @,
                                      !.i = @ + 1]
                /\ data' = cycle(size, data)
    /\ UNCHANGED <<pc, size, writes, ret, d5, d1, util, d12, d15, d19, d10>>

\* preamble, period and remaining, after the break.
SpinRemaining ==
    /\ d14.pc = "found"
    /\ d14' = [d14 EXCEPT
            !.pc = "finish",
            !.remaining = remaining(d14.first_seen,
                                    d14.second_seen - d14.first_seen)]
    /\ UNCHANGED <<mapVars, d5, d1, util, d12, d15, d19, d10>>

\* One turn of for _ in 0..remaining.
SpinFinish ==
    /\ d14.pc = "finish"
    /\ d14.cycled < d14.remaining
    /\ d14' = [d14 EXCEPT !.cycled = @ + 1]
    /\ data' = cycle(size, data)
    /\ UNCHANGED <<pc, size, writes, ret, d5, d1, util, d12, d15, d19, d10>>

\* load(&map), returned.
SpinLoad ==
    /\ d14.pc = "finish"
    /\ d14.cycled >= d14.remaining
    /\ d14' = [d14 EXCEPT !.pc = "done", !.load = load(size, data)]
    /\ UNCHANGED <<mapVars, d5, d1, util, d12, d15, d19, d10>>

NextSpin == SpinSearch \/ SpinRemaining \/ SpinFinish \/ SpinLoad

SpecSpin == InitSpin /\ [][NextSpin]_vars

\* The platforms that cycles lead to from d, in the order they are reached,
\* after those of acc.
RECURSIVE Orbit(_, _, _)
Orbit(sz, d, acc) ==
    IF \E j \in 1..Len(acc) : acc[j] = d THEN acc
    ELSE Orbit(sz, cycle(sz, d), Append(acc, d))

Place(orbit, d) == CHOOSE j \in 1..Len(orbit) : orbit[j] = d

\* A map of the places of an orbit into themselves is the sequence of the
\* images.  f after g, from place j on:
RECURSIVE After(_, _, _)
After(f, g, j) ==
    IF j > Len(g) THEN <<>> ELSE <<f[g[j]]>> \o After(f, g, j + 1)

\* f applied n times, by squaring: f^n is (f^(n \div 2))^2, after one more f
\* for an odd n.
RECURSIVE Power(_, _)
Power(f, n) ==
    IF n = 0 THEN After(f, <<>>, 1) \o [j \in 1..Len(f) |-> j]
    ELSE LET half == Power(f, n \div 2)
             square == After(half, half, 1)
         IN  IF n % 2 = 0 THEN square ELSE After(f, square, 1)

\* One cycle, on the places of an orbit, from place j on.
RECURSIVE Once(_, _, _)
Once(sz, orbit, j) ==
    IF j > Len(orbit) THEN <<>>
    ELSE <<Place(orbit, cycle(sz, orbit[j]))>> \o Once(sz, orbit, j + 1)

\* C16: solve_part_2 ends on the grid reached after exactly 1,000,000,000
\* spin cycles from the input: with preamble p and period q of the first
\* repeated state, the (N - p) mod q cycles run from the repeated state give
\* the grid that N cycles from the input give; its load is what is returned.
\* (The N cycles are taken on the places of the input's orbit, which one
\* cycle maps into themselves, by squaring.)
C16_EndsAfterTotalCycles ==
    d14.pc = "done" =>
        LET orbit == Orbit(size, d14.input, <<>>)
            once == Once(size, orbit, 1)
            final == orbit[Power(once, TotalCycles)[1]]
        IN  /\ orbit[1] = d14.input
            /\ \A j \in 1..Len(orbit) : once[j] \in 1..Len(orbit)
            /\ data = final
            /\ d14.load = load(size, final)

\* C16's case: a repeat was found after a preamble, its period is more than
\* one cycle, and cycles were run after it before the load was returned.
C16_Witness ==
    /\ d14.pc = "done"
    /\ d14.first_seen > 0
    /\ d14.second_seen - d14.first_seen > 1
    /\ d14.cycled > 0
    /\ d14.load > 0

---------------------------------------------------------------------------
(* Day 15: aoc_hash and solve_part_2, the boxes of lenses.                  *)

\* The most operations of an input.
MaxOps == 4

\* let mut boxes: [HashMap<&str, (usize, u8)>; 256]
NumBoxes == 256

\* The labels of the operations, their characters in a sequence: "rn" and
\* "cm" hash to box 0, "qp" to box 1.
Labels == {<<"r", "n">>, <<"c", "m">>, <<"q", "p">>}
LensValues == {1, 2}

\* c as u32, for the characters of the labels.
CharCode(c) ==
    CASE c = "c" -> 99
      [] c = "m" -> 109
      [] c = "n" -> 110
      [] c = "p" -> 112
      [] c = "q" -> 113
      [] c = "r" -> 114

Insert(label, value) == [op |-> "Insert", label |-> label, value |-> value]
Remove(label) == [op |-> "Remove", label |-> label, value |-> 0]

Operations ==
    {Insert(l, v) : l \in Labels, v \in LensValues} \cup {Remove(l) : l \in Labels}

\* aoc_hash: hash = ((hash + c) * 17) % 256 over the characters, in u32.
RECURSIVE aoc_hash_from(_, _)
aoc_hash_from(chars, hash) ==
    IF chars = <<>> THEN hash
    ELSE aoc_hash_from(Tail(chars), ((hash + CharCode(Head(chars))) * 17) % 256)

aoc_hash(chars) == aoc_hash_from(chars, 0)

\* An overwrite that takes the index of the overwriting operation.
entry_overwrite_with_new_idx(entry, idx, value) == [idx |-> idx, value |-> value]

\* Entry::Occupied: the old index is kept, the value is updated.
entry_overwrite(entry, idx, value) == [entry EXCEPT !.value = value]

\* One operation on its box, a map from label to (idx, value).
apply_operation(box, idx, op) ==
    IF op.op = "Insert"
    THEN IF op.label \in DOMAIN box
         THEN [box EXCEPT ![op.label] = entry_overwrite(@, idx, op.value)]
         ELSE (op.label :> [idx |-> idx, value |-> op.value]) @@ box
    ELSE [l \in DOMAIN box \ {op.label} |-> box[l]]

\* sorted: the entries of a box in the order of their idx, each with its
\* label.
RECURSIVE sorted(_)
sorted(box) ==
    IF DOMAIN box = {} THEN <<>>
    ELSE LET first == CHOOSE l \in DOMAIN box :
                          \A m \in DOMAIN box : box[l].idx <= box[m].idx
         IN  <<[label |-> first, value |-> box[first].value]>>
             \o sorted([l \in DOMAIN box \ {first} |-> box[l]])

\* The focusing power of a sequence of lenses in box box_idx.
RECURSIVE box_power(_, _, _)
box_power(box_idx, lenses, lens_idx) ==
    IF lens_idx >= Len(lenses) THEN 0
    ELSE (box_idx + 1) * (lens_idx + 1) * lenses[lens_idx + 1].value
         + box_power(box_idx, lenses, lens_idx + 1)

\* The boxes are held for the indices that labels hash to; every other box
\* of the NumBoxes stays the empty map it was made as.
BoxesInUse == {aoc_hash(l) : l \in Labels}

box_at(boxes, box_idx) ==
    IF box_idx \in DOMAIN boxes THEN boxes[box_idx] ELSE <<>>

\* for (box_idx, box_ref) in boxes.iter().enumerate(): the sum over the
\* boxes from..(to - 1), taken by halves.
RECURSIVE total_power(_, _, _)
total_power(boxes, from, to) ==
    IF to <= from THEN 0
    ELSE IF to = from + 1 THEN box_power(from, sorted(box_at(boxes, from)), 0)
    ELSE total_power(boxes, from, (from + to) \div 2)
         + total_power(boxes, (from + to) \div 2, to)

InitDay15 ==
    /\ MapIdle
    /\ OtherDaysIdle("d15")
    /\ d15 = [pc |-> "loop", input |-> <<>>, boxes |-> [b \in BoxesInUse |-> <<>>],
              sum |-> 0]

\* One turn of for (idx, op) in input.iter().enumerate(), for an input whose
\* next operation is op.
Operate(op) ==
    /\ d15.pc = "loop"
    /\ Len(d15.input) < MaxOps
    /\ LET idx == Len(d15.input)
           b == aoc_hash(op.label)
       IN  d15' = [d15 EXCEPT
               !.input = Append(@, op),
               !.boxes[b] = apply_operation(@, idx, op)]
    /\ UNCHANGED <<mapVars, d14, d5, d1, util, d12, d19, d10>>

\* The input is at its end: the boxes are sorted and summed.
SumBoxes ==
    /\ d15.pc = "loop"
    /\ d15' = [d15 EXCEPT !.pc = "done", !.sum = total_power(d15.boxes, 0, NumBoxes)]
    /\ UNCHANGED <<mapVars, d14, d5, d1, util, d12, d19, d10>>

NextDay15 ==
    \/ \E op \in Operations : Operate(op)
    \/ SumBoxes

SpecDay15 == InitDay15 /\ [][NextDay15]_vars

\* The ordered list of a box after the operations: an Insert of a label in
\* the list replaces the value in its slot, an Insert of another label
\* appends, a Remove deletes and keeps the order of the rest.
HasLabel(list, label) == \E i \in 1..Len(list) : list[i].label = label

ListInsert(list, label, value) ==
    IF HasLabel(list, label)
    THEN [i \in 1..Len(list) |->
             IF list[i].label = label THEN [label |-> label, value |-> value]
             ELSE list[i]]
    ELSE Append(list, [label |-> label, value |-> value])

RECURSIVE ListWithout(_, _)
ListWithout(list, label) ==
    IF list = <<>> THEN <<>>
    ELSE (IF Head(list).label = label THEN <<>> ELSE <<Head(list)>>)
         \o ListWithout(Tail(list), label)

RECURSIVE ListOfBox(_, _)
ListOfBox(ops, b) ==
    IF ops = <<>> THEN <<>>
    ELSE LET before == ListOfBox(SubSeq(ops, 1, Len(ops) - 1), b)
             op == ops[Len(ops)]
         IN  IF aoc_hash(op.label) # b THEN before
             ELSE IF op.op = "Insert" THEN ListInsert(before, op.label, op.value)
             ELSE ListWithout(before, op.label)

---------------------------------------------------------------------------
(* Day 19: Test, ObjectRange, Workflow and Input.                          *)

\* The properties of the objects are 1..MaxValue; the values of the tests
\* reach one below and one above.
MaxValue == 2

Property == {"X", "M", "A", "S"}

\* An Object and an ObjectRange are functions on Property; a range holds
\* the inclusive bounds (lower, upper) of each property.
Objects == [Property -> 1..MaxValue]

Bounds(lower, upper) == [lower |-> lower, upper |-> upper]

ObjectRanges ==
    [Property -> {b \in [lower : 1..MaxValue, upper : 1..MaxValue] :
                     b.lower <= b.upper}]

Void == [kind |-> "Void", property |-> "X", value |-> 0]
LessThan(property, value) ==
    [kind |-> "LessThan", property |-> property, value |-> value]
GreaterThan(property, value) ==
    [kind |-> "GreaterThan", property |-> property, value |-> value]

TestValues == 0..(MaxValue + 1)

Tests ==
    {Void} \cup {LessThan(p, v) : p \in Property, v \in TestValues}
           \cup {GreaterThan(p, v) : p \in Property, v \in TestValues}

\* Test::test
test(t, object) ==
    CASE t.kind = "Void" -> TRUE
      [] t.kind = "LessThan" -> object[t.property] < t.value
      [] t.kind = "GreaterThan" -> object[t.property] > t.value

\* split_bounds of split_lt with the value put in the first part too.
split_bounds_le(bounds, value) ==
    IF value < bounds.lower THEN <<None, Some(bounds)>>
    ELSE IF value >= bounds.upper THEN <<Some(bounds), None>>
    ELSE <<Some(Bounds(bounds.lower, value)), Some(Bounds(value + 1, bounds.upper))>>

\* The closure split_bounds of split_lt.
split_bounds(bounds, value) ==
    IF value <= bounds.lower THEN <<None, Some(bounds)>>
    ELSE IF value > bounds.upper THEN <<Some(bounds), None>>
    ELSE <<Some(Bounds(bounds.lower, value - 1)), Some(Bounds(value, bounds.upper))>>

\* a.map(|bounds| { let mut range = self.clone(); range[property] = bounds; range })
with_bounds(range, property, bounds) ==
    IF bounds = None THEN None
    ELSE Some([range EXCEPT ![property] = bounds[1]])

\* ObjectRange::split_lt
split_lt(range, property, value) ==
    LET ab == split_bounds(range[property], value)
    IN  <<with_bounds(range, property, ab[1]), with_bounds(range, property, ab[2])>>

\* Test::test_range: the passing part and the failing part.
test_range(t, object_range) ==
    CASE t.kind = "Void" -> <<Some(object_range), None>>
      [] t.kind = "LessThan" -> split_lt(object_range, t.property, t.value)
      [] t.kind = "GreaterThan" ->
            LET ba == split_lt(object_range, t.property, t.value + 1)
            IN  <<ba[2], ba[1]>>

InitTest ==
    /\ MapIdle
    /\ OtherDaysIdle("d19")
    /\ \E r \in ObjectRanges :
           d19 = [pc |-> "start", range |-> r, call |-> "none", test |-> Void,
                  first |-> None, second |-> None]

\* test.test_range(range)
TestRange(t) ==
    /\ d19.pc = "start"
    /\ d19' = [d19 EXCEPT !.pc = "done", !.call = "test_range", !.test = t,
                          !.first = test_range(t, d19.range)[1],
                          !.second = test_range(t, d19.range)[2]]
    /\ UNCHANGED <<mapVars, d14, d5, d1, util, d12, d15, d10>>

\* range.split_lt(property, value)
SplitLt(property, value) ==
    /\ d19.pc = "start"
    /\ d19' = [d19 EXCEPT !.pc = "done", !.call = "split_lt",
                          !.test = LessThan(property, value),
                          !.first = split_lt(d19.range, property, value)[1],
                          !.second = split_lt(d19.range, property, value)[2]]
    /\ UNCHANGED <<mapVars, d14, d5, d1, util, d12, d15, d10>>

NextTest ==
    \/ \E t \in Tests : TestRange(t)
    \/ \E p \in Property, v \in TestValues : SplitLt(p, v)

SpecTest == InitTest /\ [][NextTest]_vars

\* The objects of a range, and of an Option of a range.
InRange(range, object) ==
    \A p \in Property :
        range[p].lower <= object[p] /\ object[p] <= range[p].upper

ObjectsOf(part) ==
    IF part = None THEN {} ELSE {o \in Objects : InRange(part[1], o)}

\* C18: for every Test and every ObjectRange, test_range splits the range
\* into a passing and a failing part that are disjoint and whose union is
\* the whole range, test() being true for every object of the passing part
\* and false for every object of the failing part (a part that is Some
\* holds an object); and split_lt(property, value) puts exactly the objects
\* with property < value in its first part, the others in its second.
C18_TestRangeSplits ==
    d19.pc = "done" =>
        LET whole == ObjectsOf(Some(d19.range))
            first == ObjectsOf(d19.first)
            second == ObjectsOf(d19.second)
        IN  /\ first \cap second = {}
            /\ first \cup second = whole
            /\ d19.first # None => first # {}
            /\ d19.second # None => second # {}
            /\ d19.call = "test_range" =>
                  /\ \A o \in first : test(d19.test, o)
                  /\ \A o \in second : ~test(d19.test, o)
            /\ d19.call = "split_lt" =>
                  first = {o \in whole : o[d19.test.property] < d19.test.value}

\* C18's case: a GreaterThan test has split a range into two parts that
\* both hold objects.
C18_Witness ==
    /\ d19.pc = "done"
    /\ d19.call = "test_range"
    /\ d19.test.kind = "GreaterThan"
    /\ d19.first # None /\ d19.second # None
    /\ \E p \in Property : p # d19.test.property
                           /\ d19.range[p].lower < d19.range[p].upper

---------------------------------------------------------------------------
(* Day 19: Workflow::range_destinations, Input::final_destination and      *)
(* Input::range_destinations over acyclic sets of workflows.               *)

MaxWorkflows == 2
MaxInstructions == 2

Reject == [kind |-> "Reject", wf |-> 0]
Accept == [kind |-> "Accept", wf |-> 0]
Workflow(id) == [kind |-> "Workflow", wf |-> id]

Instruction(t, destination) == [test |-> t, destination |-> destination]

\* The tests of the workflows: Void, and on two properties a LessThan and a
\* GreaterThan that each cut the full range in two.
WorkflowTests ==
    {Void} \cup {LessThan(p, MaxValue) : p \in {"X", "M"}}
           \cup {GreaterThan(p, 1) : p \in {"X", "M"}}

\* The workflows that workflow id of n may be: 1..MaxInstructions
\* instructions, whose Workflow destinations are later workflows only.
WorkflowsAt(id, n) ==
    LET Destinations == {Reject, Accept} \cup {Workflow(j) : j \in (id + 1)..(n - 1)}
        Instructions == {Instruction(t, d) : t \in WorkflowTests, d \in Destinations}
    IN  UNION {[1..k -> Instructions] : k \in 1..MaxInstructions}

\* The acyclic sets of n workflows from workflow id on, the start workflow
\* first.
RECURSIVE WorkflowSets(_, _)
WorkflowSets(id, n) ==
    IF id = n THEN {<<>>}
    ELSE {<<w>> \o rest : w \in WorkflowsAt(id, n), rest \in WorkflowSets(id + 1, n)}

\* The range of solve_part_2.
FullRange == [p \in Property |-> Bounds(1, MaxValue)]

\* The start ranges: the full range, and the ranges narrower in x.
StartRanges == {r \in ObjectRanges : \A p \in Property \ {"X"} : r[p] = FullRange[p]}

\* ObjectRange::len
len(range) ==
    (range["X"].upper - range["X"].lower + 1)
    * (range["M"].upper - range["M"].lower + 1)
    * (range["A"].upper - range["A"].lower + 1)
    * (range["S"].upper - range["S"].lower + 1)

NoDestination == [kind |-> "Panic", wf |-> 0]

\* Workflow::destination, from instruction i on.
RECURSIVE destination_from(_, _, _)
destination_from(workflow, object, i) ==
    IF i > Len(workflow) THEN NoDestination
    ELSE IF test(workflow[i].test, object) THEN workflow[i].destination
    ELSE destination_from(workflow, object, i + 1)

destination(workflow, object) == destination_from(workflow, object, 1)

\* Input::final_destination, from workflow wf on.
RECURSIVE final_destination_from(_, _, _)
final_destination_from(workflows, wf, object) ==
    LET d == destination(workflows[wf + 1], object)
    IN  IF d.kind = "Workflow" THEN final_destination_from(workflows, d.wf, object)
        ELSE d

final_destination(workflows, object) == final_destination_from(workflows, 0, object)

\* The scan of Workflow::range_destinations that hands every instruction
\* the whole range.
RECURSIVE scan_whole_range(_, _, _)
scan_whole_range(workflow, object_range, i) ==
    IF i > Len(workflow) \/ object_range = None THEN <<>>
    ELSE LET pass == test_range(workflow[i].test, object_range[1])[1]
         IN  (IF pass = None THEN <<>>
              ELSE <<[destination |-> workflow[i].destination, range |-> pass[1]]>>)
             \o scan_whole_range(workflow, object_range, i + 1)

\* The scan and flatten of Workflow::range_destinations from instruction i
\* on: object_range is the scan's state.
RECURSIVE scan(_, _, _)
scan(workflow, object_range, i) ==
    IF i > Len(workflow) \/ object_range = None THEN <<>>
    ELSE LET pass == test_range(workflow[i].test, object_range[1])[1]
             fail == test_range(workflow[i].test, object_range[1])[2]
         IN  (IF pass = None THEN <<>>
              ELSE <<[destination |-> workflow[i].destination, range |-> pass[1]]>>)
             \o scan(workflow, fail, i + 1)

\* Workflow::range_destinations
range_destinations(workflow, object_range) == scan(workflow, Some(object_range), 1)

RECURSIVE to_accepted(_)
to_accepted(dests) ==
    IF dests = <<>> THEN <<>>
    ELSE (IF Head(dests).destination.kind = "Accept" THEN <<Head(dests).range>>
          ELSE <<>>) \o to_accepted(Tail(dests))

RECURSIVE to_stack(_)
to_stack(dests) ==
    IF dests = <<>> THEN <<>>
    ELSE (IF Head(dests).destination.kind = "Workflow"
          THEN <<[wf |-> Head(dests).destination.wf, range |-> Head(dests).range]>>
          ELSE <<>>) \o to_stack(Tail(dests))

RECURSIVE sum_len(_)
sum_len(ranges) ==
    IF ranges = <<>> THEN 0 ELSE len(Head(ranges)) + sum_len(Tail(ranges))

InitWorkflows ==
    /\ MapIdle
    /\ OtherDaysIdle("d19")
    /\ \E n \in 1..MaxWorkflows : \E ws \in WorkflowSets(0, n), r \in StartRanges :
           d19 = [pc |-> "loop", workflows |-> ws, range |-> r,
                  stack |-> <<[wf |-> 0, range |-> r]>>,
                  accepted |-> <<>>, total |-> 0]

\* One iteration of the while loop of Input::range_destinations.
Pop ==
    /\ d19.pc = "loop"
    /\ d19.stack # <<>>
    /\ LET top == d19.stack[Len(d19.stack)]
           rest == SubSeq(d19.stack, 1, Len(d19.stack) - 1)
           dests == range_destinations(d19.workflows[top.wf + 1], top.range)
       IN  d19' = [d19 EXCEPT !.stack = rest \o to_stack(dests),
                              !.accepted = @ \o to_accepted(dests)]
    /\ UNCHANGED <<mapVars, d14, d5, d1, util, d12, d15, d10>>

\* The stack is empty: range_destinations returns accepted and
\* solve_part_2 sums the lengths.
SumAccepted ==
    /\ d19.pc = "loop"
    /\ d19.stack = <<>>
    /\ d19' = [d19 EXCEPT !.pc = "done", !.total = sum_len(d19.accepted)]
    /\ UNCHANGED <<mapVars, d14, d5, d1, util, d12, d15, d10>>

NextWorkflows ==
    \/ Pop
    \/ SumAccepted

SpecWorkflows == InitWorkflows /\ [][NextWorkflows]_vars

\* The objects of the start range that final_destination accepts.
AcceptedObjects ==
    {o \in ObjectsOf(Some(d19.range)) :
        final_destination(d19.workflows, o) = Accept}

\* C19: for every acyclic set of workflows the accepted ranges returned by
\* Input::range_destinations are pairwise disjoint and their total len()
\* is the number of objects of the start range for which final_destination
\* returns Accept (the ranges hold exactly those objects).
C19_AcceptedRangesCountAccepted ==
    d19.pc = "done" =>
        /\ \A i \in 1..Len(d19.accepted) : \A j \in (i + 1)..Len(d19.accepted) :
               ObjectsOf(Some(d19.accepted[i])) \cap ObjectsOf(Some(d19.accepted[j])) = {}
        /\ \A i \in 1..Len(d19.accepted) :
               len(d19.accepted[i]) = Cardinality(ObjectsOf(Some(d19.accepted[i])))
        /\ UNION {ObjectsOf(Some(d19.accepted[i])) : i \in 1..Len(d19.accepted)}
               = AcceptedObjects
        /\ d19.total = Cardinality(AcceptedObjects)

\* C19's case: two workflows, the second reached, several accepted ranges,
\* some objects accepted and some not.
C19_Witness ==
    /\ d19.pc = "done"
    /\ Len(d19.workflows) = 2
    /\ Len(d19.accepted) >= 3
    /\ \E i \in 1..Len(d19.workflows[1]) :
           d19.workflows[1][i].destination = Workflow(1)
    /\ d19.total > 0
    /\ d19.total < len(d19.range)

---------------------------------------------------------------------------
(* Day 10: Cell::from_dir_pair and the starting cell of parse.             *)

\* The maps are MapSide lines of MapSide characters.
MapSide == 3

PipeChars == {"|", "-", "L", "J", "7", "F"}

\* enum Cell of day 10.
PipeCell ==
    {"UpDown", "UpRight", "UpLeft", "DownRight", "DownLeft", "RightLeft",
     "Starting", "Empty"}

\* Cell::from_char
from_char(c) ==
    CASE c = "|" -> "UpDown"
      [] c = "-" -> "RightLeft"
      [] c = "L" -> "UpRight"
      [] c = "J" -> "UpLeft"
      [] c = "7" -> "DownLeft"
      [] c = "F" -> "DownRight"
      [] c = "S" -> "Starting"
      [] OTHER -> "Empty"

\* Cell::dir_pair
dir_pair(cell) ==
    CASE cell = "UpDown" -> Some(<<"Up", "Down">>)
      [] cell = "UpRight" -> Some(<<"Up", "Right">>)
      [] cell = "UpLeft" -> Some(<<"Up", "Left">>)
      [] cell = "DownRight" -> Some(<<"Down", "Right">>)
      [] cell = "DownLeft" -> Some(<<"Down", "Left">>)
      [] cell = "RightLeft" -> Some(<<"Right", "Left">>)
      [] cell = "Starting" -> None
      [] cell = "Empty" -> None

\* Dir::ALL, which is also the order of the variants that derive(Ord) uses.
ALL == <<"Up", "Down", "Left", "Right">>

DirOrd(dir) == CHOOSE i \in 1..Len(ALL) : ALL[i] = dir

\* std::cmp::min and std::cmp::max on Dir
min_dir(a, b) == IF DirOrd(b) < DirOrd(a) THEN b ELSE a
max_dir(a, b) == IF DirOrd(b) >= DirOrd(a) THEN b ELSE a

\* Dir::opposite
opposite(dir) ==
    CASE dir = "Up" -> "Down"
      [] dir = "Down" -> "Up"
      [] dir = "Left" -> "Right"
      [] dir = "Right" -> "Left"

\* Cell::from_dir_pair; "Panic" is the panic of the last arm. The second
\* let sees the first one's dir1.
from_dir_pair(dir1, dir2) ==
    LET dir1_ == min_dir(dir1, dir2)
        dir2_ == max_dir(dir1_, dir2)
    IN  CASE <<dir1_, dir2_>> = <<"Up", "Down">> -> "UpDown"
          [] <<dir1_, dir2_>> = <<"Up", "Right">> -> "UpRight"
          [] <<dir1_, dir2_>> = <<"Up", "Left">> -> "UpLeft"
          [] <<dir1_, dir2_>> = <<"Down", "Right">> -> "DownRight"
          [] <<dir1_, dir2_>> = <<"Down", "Left">> -> "DownLeft"
          [] <<dir1_, dir2_>> = <<"Right", "Left">> -> "RightLeft"
          [] OTHER -> "Panic"

\* Cell::connects
connects(cell, dir) ==
    IF dir_pair(cell) = None THEN FALSE
    ELSE dir = dir_pair(cell)[1][1] \/ dir = dir_pair(cell)[1][2]

\* Map::pos_to_idx
pos_to_idx(sz, pos) == pos.y * sz.x + pos.x

\* Map::idx_to_pos
idx_to_pos(sz, idx) == Vec2(idx % sz.x, idx \div sz.x)

\* Map::find: the position of the first cell equal to cell.
map_find(sz, pipes, cell) ==
    IF \E i \in 1..Len(pipes) : pipes[i] = cell
    THEN Some(idx_to_pos(sz, (CHOOSE i \in 1..Len(pipes) :
                                 /\ pipes[i] = cell
                                 /\ \A j \in 1..(i - 1) : pipes[j] # cell) - 1))
    ELSE None

\* Map::get
map_get(sz, pipes, pos) ==
    IF pos.x < 0 \/ pos.y < 0 \/ pos.x >= sz.x \/ pos.y >= sz.y THEN "Empty"
    ELSE pipes[pos_to_idx(sz, pos) + 1]

\* input.chars().filter(|char| *char != '\n').map(Cell::from_char)
RECURSIVE pipes_of(_)
pipes_of(lines) ==
    IF lines = <<>> THEN <<>>
    ELSE [i \in 1..Len(Head(lines)) |-> from_char(Head(lines)[i])]
         \o pipes_of(Tail(lines))

\* The directions pushed to candidate_connections, in the order of ALL.
candidate_connections(sz, pipes, source) ==
    LET connected(dir) ==
            connects(map_get(sz, pipes, Vec2(source.x + to_vec2(dir).x,
                                             source.y + to_vec2(dir).y)),
                     opposite(dir))
    IN  SelectSeq(ALL, connected)

\* parse: the Input, or the panic of the unwrap, of the assert_eq or of
\* from_dir_pair.
parse10(lines) ==
    LET sz == Vec2(Len(lines[1]), Len(lines))
        pipes == pipes_of(lines)
        source == map_find(sz, pipes, "Starting")
        candidates == candidate_connections(sz, pipes, source[1])
        source_cell == from_dir_pair(candidates[1], candidates[2])
        panicked(why) == [panic |-> why, size |-> sz, pipes |-> pipes,
                          source |-> Vec2(0, 0)]
    IN  IF source = None THEN panicked("unwrap")
        ELSE IF Len(candidates) # 2 THEN panicked("assert_eq")
        ELSE IF source_cell = "Panic" THEN
            [panicked("Invalid dir pair") EXCEPT !.source = source[1]]
        ELSE [panic |-> "none", size |-> sz,
              pipes |-> [pipes EXCEPT ![pos_to_idx(sz, source[1]) + 1] = source_cell],
              source |-> source[1]]

\* The maps: one S, pipes or ground on its four sides, ground elsewhere.
Day10Maps ==
    LET Pos == {Vec2(x, y) : x \in 0..(MapSide - 1), y \in 0..(MapSide - 1)}
        Beside(p, q, dir) == q.x = p.x + to_vec2(dir).x /\ q.y = p.y + to_vec2(dir).y
        CharAt(p, sides, q) ==
            IF q = p THEN "S"
            ELSE IF \E dir \in Dir : Beside(p, q, dir)
                 THEN sides[CHOOSE dir \in Dir : Beside(p, q, dir)]
                 ELSE "."
    IN  {[y \in 1..MapSide |-> [x \in 1..MapSide |-> CharAt(p, sides, Vec2(x - 1, y - 1))]] :
            p \in Pos, sides \in [Dir -> PipeChars \cup {"."}]}

InitDay10 ==
    /\ MapIdle
    /\ OtherDaysIdle("d10")
    /\ \E lines \in Day10Maps :
           d10 = [pc |-> "start", lines |-> lines, call |-> "none",
                  dir1 |-> "Up", dir2 |-> "Up", cell |-> "Empty",
                  input |-> [panic |-> "none", size |-> Vec2(0, 0),
                             pipes |-> <<>>, source |-> Vec2(0, 0)]]

\* Cell::from_dir_pair(dir1, dir2)
FromDirPair(dir1, dir2) ==
    /\ d10.pc = "start"
    /\ d10' = [d10 EXCEPT !.pc = "done", !.call = "from_dir_pair",
                          !.dir1 = dir1, !.dir2 = dir2,
                          !.cell = from_dir_pair(dir1, dir2)]
    /\ UNCHANGED <<mapVars, d14, d5, d1, util, d12, d15, d19>>

\* parse(input)
Parse10 ==
    /\ d10.pc = "start"
    /\ d10' = [d10 EXCEPT !.pc = "done", !.call = "parse",
                          !.input = parse10(d10.lines)]
    /\ UNCHANGED <<mapVars, d14, d5, d1, util, d12, d15, d19>>

NextDay10 ==
    \/ \E dir1 \in Dir, dir2 \in Dir : FromDirPair(dir1, dir2)
    \/ Parse10

SpecDay10 == InitDay10 /\ [][NextDay10]_vars

\* The directions a cell's pipe connects.
DirsOf(cell) ==
    IF cell \notin PipeCell \/ dir_pair(cell) = None THEN {}
    ELSE {dir_pair(cell)[1][1], dir_pair(cell)[1][2]}

\* The directions in which the neighbour of the S of the map connects back.
Connecting(lines) ==
    LET sz == Vec2(Len(lines[1]), Len(lines))
        pipes == pipes_of(lines)
        source == map_find(sz, pipes, "Starting")[1]
    IN  {dir \in Dir :
            opposite(dir) \in DirsOf(map_get(sz, pipes,
                                 Vec2(source.x + to_vec2(dir).x,
                                      source.y + to_vec2(dir).y)))}

FromDirPairIsRight ==
    DirsOf(d10.cell) = {d10.dir1, d10.dir2}

ParseIsRight ==
    /\ d10.input.panic = "none"
    /\ DirsOf(d10.input.pipes[pos_to_idx(d10.input.size, d10.input.source) + 1])
           = Connecting(d10.lines)
    /\ \A i \in 1..Len(d10.input.pipes) :
           i # pos_to_idx(d10.input.size, d10.input.source) + 1
               => d10.input.pipes[i] = pipes_of(d10.lines)[i]

\* C20: for every two distinct directions, in either argument order,
\* from_dir_pair returns the pipe cell whose dir_pair is the two directions;
\* and parse replaces the Starting cell by the pipe that connects the two
\* connecting neighbours, for each of the six pairs.
C20_FromDirPair ==
    d10.pc = "done" =>
        /\ d10.call = "from_dir_pair" /\ d10.dir1 # d10.dir2
               => FromDirPairIsRight
        /\ d10.call = "parse" /\ Cardinality(Connecting(d10.lines)) = 2
               => ParseIsRight

\* What holds of from_dir_pair: it is right when dir1 comes before dir2 in
\* the order of Dir and the pair is not (Left, Right), and panics for every
\* other pair of distinct directions.
FromDirPairAscendingOnly ==
    d10.pc = "done" /\ d10.call = "from_dir_pair" /\ d10.dir1 # d10.dir2 =>
        IF DirOrd(d10.dir1) < DirOrd(d10.dir2)
           /\ <<d10.dir1, d10.dir2>> # <<"Left", "Right">>
        THEN FromDirPairIsRight
        ELSE d10.cell = "Panic"

\* What holds of parse: with two connecting neighbours it is right except
\* for Left and Right, where it panics in from_dir_pair.
ParseExceptLeftRight ==
    d10.pc = "done" /\ d10.call = "parse"
    /\ Cardinality(Connecting(d10.lines)) = 2 =>
        IF Connecting(d10.lines) = {"Left", "Right"}
        THEN d10.input.panic = "Invalid dir pair"
        ELSE ParseIsRight

\* A reachable state: parse of a map whose start connects Left and Right
\* has panicked in from_dir_pair.
StartLeftRightPanics ==
    /\ d10.pc = "done"
    /\ d10.call = "parse"
    /\ Connecting(d10.lines) = {"Left", "Right"}
    /\ d10.input.panic = "Invalid dir pair"

====
